---- MODULE Spec2Model ----
(***************************************************************************)
(* Model of the indoor routing engine of utils/dijkstra.ts (class Graph):  *)
(* the node index, the adjacency index built by the constructor, the       *)
(* same-floor search, the connectivity probe and the cross-floor router.   *)
(*                                                                         *)
(* A JavaScript Map is modelled in insertion order: the node index is a    *)
(* sequence of node records, an adjacency map a sequence of                *)
(* [to, weight] entries (Map.set on an existing key keeps its position).   *)
(*                                                                         *)
(* Inputs: node identifiers are unique (spec section 3) and are numbered   *)
(* in insertion order; an edge joins two different identifiers of NodeIds, *)
(* known or not (an unknown endpoint is a dangling edge), and is given     *)
(* with from < to, since the constructor inserts both directions. A node's *)
(* label is stood for by its identifier.                                   *)
(***************************************************************************)
EXTENDS Integers, Sequences, FiniteSets, TLC

\* ------------------------------------------------------------------ bounds
\* edges the constructor is given, at most
MaxEdges == 3
\* the largest edge weight (weights are non-negative, spec section 3)
MaxWeight == 2

\* edges given to the constructor of a graph that getReachableNodes is asked
\* about, at most
MaxLinks == 4
\* the largest distance budget getReachableNodes is given
MaxBudget == 2

\* the largest weight of a graph whose weights are all strictly positive
MaxPositiveWeight == 3

\* edges given to the constructor where a short edge list shows the case, at
\* most
MaxFewEdges == 2
\* the longest label of a node and the longest query searchNodes is given
MaxTextLen == 2

\* the input domains: node identifiers, floors, edge weights, node types
NodeIds == 1..3
Floors == 1..2
Weights == 0..MaxWeight
NodeTypes == {"stair", "shop"}

\* IEEE +Infinity: larger than every finite total of the bounded model.
Infinity == 1000000
\* JavaScript null / undefined where an identifier or a floor number is expected
\* (identifiers and floors of the model start at 1).
Null == 0
\* getShortestPath's null return
NullResult == [isNull |-> TRUE]
\* an undefined message field
NoMessage == [kind |-> "undefined"]

VARIABLES nodes, adjacencyList, pc, nEdges, query, result,
          \* the arguments the constructor of the Graph variant with an
          \* accessibility filter was given (the edges it has consumed so far)
          input,
          \* the local variables of the call that is running, step by step
          locals

vars == <<nodes, adjacencyList, pc, nEdges, query, result, input, locals>>

\* ------------------------------------------------------------ map helpers
RECURSIVE SeqIndex(_, _, _)
\* Position of the first element of s (from i on) satisfying key k, 0 if none.
SeqIndex(s, k, i) ==
  IF i > Len(s) THEN 0
  ELSE IF s[i].to = k THEN i
  ELSE SeqIndex(s, k, i + 1)

\* this.nodes.has(id)
HasNode(id) == \E i \in 1..Len(nodes) : nodes[i].node_id = id

\* this.nodes.get(id), for an id the index has
GetNode(id) == nodes[CHOOSE i \in 1..Len(nodes) : nodes[i].node_id = id]

\* Map.set(to, distance) on one adjacency map
MapSet(m, to, distance) ==
  LET i == SeqIndex(m, to, 1)
  IN IF i = 0 THEN Append(m, [to |-> to, weight |-> distance])
     ELSE [m EXCEPT ![i] = [to |-> to, weight |-> distance]]

\* addEdge(from, to, distance) applied to an adjacency index adj
addEdge(adj, from, to, distance) ==
  IF from \in DOMAIN adj
  THEN [adj EXCEPT ![from] = MapSet(adj[from], to, distance)]
  ELSE adj

\* ------------------------------------------------------- same-floor search
\* a GetOrInfinity written with `|| 0`
GetOrZero(distances, k) ==
  IF k \in DOMAIN distances /\ distances[k] # 0 THEN distances[k] ELSE 0

\* distances.get(k) || Infinity : an absent entry and a stored 0 both give Infinity
GetOrInfinity(distances, k) ==
  IF k \in DOMAIN distances /\ distances[k] # 0 THEN distances[k] ELSE Infinity

\* previous.get(k) || null
GetOrNull(previous, k) ==
  IF k \in DOMAIN previous THEN previous[k] ELSE Null

\* Map.set on the distances / previous maps (key order is never read)
Put(m, k, v) == [x \in DOMAIN m \cup {k} |-> IF x = k THEN v ELSE m[x]]

RECURSIVE InsertSorted(_, _)
\* e placed behind every entry whose distance is not greater (stable order)
InsertSorted(sorted, e) ==
  IF sorted = <<>> THEN <<e>>
  ELSE IF e.distance < Head(sorted).distance THEN <<e>> \o sorted
  ELSE <<Head(sorted)>> \o InsertSorted(Tail(sorted), e)

\* a SortQueue that leaves the queue in arrival order
QueueInArrivalOrder(queue, sorted) == sorted \o queue

RECURSIVE SortQueue(_, _)
\* priorityQueue.sort((a, b) => a[1] - b[1]), a stable sort (ECMAScript 2019)
SortQueue(queue, sorted) ==
  IF queue = <<>> THEN sorted
  ELSE SortQueue(Tail(queue), InsertSorted(sorted, Head(queue)))

RECURSIVE RelaxNeighbors(_, _, _, _)
\* the for-loop over neighbors.entries() of the node just visited;
\* st = [distances, previous, visited, priorityQueue]
RelaxNeighbors(st, neighbors, currentNode, currentDistance) ==
  IF neighbors = <<>> THEN st
  ELSE
    LET neighbor == Head(neighbors).to
        weight == Head(neighbors).weight
        newDistance == currentDistance + weight
        currentNeighborDistance == GetOrInfinity(st.distances, neighbor)
        st2 ==
          IF neighbor \in st.visited THEN st
          ELSE IF newDistance < currentNeighborDistance
          THEN [st EXCEPT
                  !.distances = Put(st.distances, neighbor, newDistance),
                  !.previous = Put(st.previous, neighbor, currentNode),
                  !.priorityQueue =
                     Append(st.priorityQueue,
                            [node |-> neighbor, distance |-> newDistance])]
          ELSE st
    IN RelaxNeighbors(st2, Tail(neighbors), currentNode, currentDistance)

RECURSIVE SearchLoopStopsAtUnknown(_, _, _)
\* a SearchLoop that leaves the loop (break, not continue) at a node that has
\* no adjacency map
SearchLoopStopsAtUnknown(adj, st, end) ==
  IF st.priorityQueue = <<>> THEN st
  ELSE
    LET sorted == SortQueue(st.priorityQueue, <<>>)
        currentNode == Head(sorted).node
        currentDistance == Head(sorted).distance
        popped == [st EXCEPT !.priorityQueue = Tail(sorted)]
    IN IF currentNode \in st.visited
       THEN SearchLoopStopsAtUnknown(adj, popped, end)
       ELSE
         LET marked == [popped EXCEPT !.visited = @ \cup {currentNode}]
         IN IF currentNode = end THEN marked
            ELSE IF currentNode \notin DOMAIN adj THEN marked
            ELSE SearchLoopStopsAtUnknown(adj,
                   RelaxNeighbors(marked, adj[currentNode], currentNode,
                                  currentDistance),
                   end)

RECURSIVE SearchLoop(_, _, _)
\* while (priorityQueue.length > 0) { sort; shift; ... }
SearchLoop(adj, st, end) ==
  IF st.priorityQueue = <<>> THEN st
  ELSE
    LET sorted == SortQueue(st.priorityQueue, <<>>)
        currentNode == Head(sorted).node
        currentDistance == Head(sorted).distance
        popped == [st EXCEPT !.priorityQueue = Tail(sorted)]
    IN IF currentNode \in st.visited THEN SearchLoop(adj, popped, end)
       ELSE
         LET marked == [popped EXCEPT !.visited = @ \cup {currentNode}]
         IN IF currentNode = end THEN marked
            ELSE IF currentNode \notin DOMAIN adj
            THEN SearchLoop(adj, marked, end)
            ELSE SearchLoop(adj,
                   RelaxNeighbors(marked, adj[currentNode], currentNode,
                                  currentDistance),
                   end)

RECURSIVE ReconstructPathPush(_, _, _)
\* a ReconstructPath that uses path.push in place of path.unshift
ReconstructPathPush(previous, currentNode, path) ==
  IF currentNode = Null THEN path
  ELSE ReconstructPathPush(previous, GetOrNull(previous, currentNode),
                           Append(path, currentNode))

RECURSIVE ReconstructPath(_, _, _)
\* while (currentNode !== null) { path.unshift(currentNode); ... }
ReconstructPath(previous, currentNode, path) ==
  IF currentNode = Null THEN path
  ELSE ReconstructPath(previous, GetOrNull(previous, currentNode),
                       <<currentNode>> \o path)

\* the floor-mates of the start node: the keys distances and previous start with
SameFloorIds(ns, floor) ==
  {ns[i].node_id : i \in {j \in 1..Len(ns) : ns[j].floor = floor}}

\* PathResult of the same-floor search (targetFloor and message undefined)
SameFloorResult(path, totalDistance) ==
  [path |-> path, distance |-> totalDistance, floorChange |-> FALSE,
   targetFloor |-> Null, message |-> NoMessage]

\* Graph.getSameFloorPath(start, end) on node index ns and adjacency index adj
getSameFloorPath(ns, adj, start, end) ==
  IF ~(\E i \in 1..Len(ns) : ns[i].node_id = start)
     \/ ~(\E i \in 1..Len(ns) : ns[i].node_id = end)
  THEN NullResult
  ELSE
    LET startNode == ns[CHOOSE i \in 1..Len(ns) : ns[i].node_id = start]
        mates == SameFloorIds(ns, startNode.floor)
        st0 == [distances |-> [k \in mates |->
                                 IF k = start THEN 0 ELSE Infinity],
                previous |-> [k \in mates |-> Null],
                visited |-> {},
                priorityQueue |-> <<[node |-> start, distance |-> 0]>>]
        st == SearchLoop(adj, st0, end)
        path == ReconstructPath(st.previous, end, <<>>)
    IN IF Len(path) = 1 /\ path[1] # start THEN NullResult
       ELSE SameFloorResult(path, GetOrInfinity(st.distances, end))

\* ------------------------------------------------------ connectivity probe
\* a StairNeighbors without the test of the neighbour's type
StairNeighborsAnyType(ns, neighbors) ==
  LET IsNode(e) == \E i \in 1..Len(ns) : ns[i].node_id = e.to
  IN [i \in 1..Len(SelectSeq(neighbors, IsNode)) |->
        SelectSeq(neighbors, IsNode)[i].to]

\* the stair-type neighbours of one adjacency map, in entry order
StairNeighbors(ns, neighbors) ==
  LET IsStair(e) == \E i \in 1..Len(ns) :
                       ns[i].node_id = e.to /\ ns[i].type = "stair"
  IN [i \in 1..Len(SelectSeq(neighbors, IsStair)) |->
        SelectSeq(neighbors, IsStair)[i].to]

\* a probe that takes every known stair to reach every floor
canStairReachEveryFloor(ns, adj, stairId, targetFloor) ==
  \E i \in 1..Len(ns) : ns[i].node_id = stairId

RECURSIVE ProbeLoop(_, _, _, _, _)
\* while (queue.length > 0) of canStairReachFloor
ProbeLoop(ns, adj, queue, visited, targetFloor) ==
  IF queue = <<>> THEN FALSE
  ELSE
    LET currentStairId == Head(queue)
        rest == Tail(queue)
    IN IF currentStairId \in visited
       THEN ProbeLoop(ns, adj, rest, visited, targetFloor)
       ELSE IF ~(\E i \in 1..Len(ns) : ns[i].node_id = currentStairId)
       THEN ProbeLoop(ns, adj, rest, visited \cup {currentStairId}, targetFloor)
       ELSE
         LET currentStair ==
               ns[CHOOSE i \in 1..Len(ns) : ns[i].node_id = currentStairId]
         IN IF currentStair.floor = targetFloor THEN TRUE
            ELSE IF currentStairId \notin DOMAIN adj
            THEN ProbeLoop(ns, adj, rest, visited \cup {currentStairId},
                           targetFloor)
            ELSE ProbeLoop(ns, adj,
                           rest \o StairNeighbors(ns, adj[currentStairId]),
                           visited \cup {currentStairId}, targetFloor)

\* Graph.canStairReachFloor(stairId, targetFloor)
canStairReachFloor(ns, adj, stairId, targetFloor) ==
  ProbeLoop(ns, adj, <<stairId>>, {}, targetFloor)

\* ------------------------------------------------------- cross-floor router
\* a getStairsOnFloor that forgets the floor test
getStairsOnAnyFloor(ns, floor) ==
  LET IsStair(n) == n.type = "stair"
  IN SelectSeq(ns, IsStair)

\* Graph.getStairsOnFloor(floor): stair nodes of the floor, in index order
getStairsOnFloor(ns, floor) ==
  LET IsStairOn(n) == n.floor = floor /\ n.type = "stair"
  IN SelectSeq(ns, IsStairOn)

\* pathToStairResult && pathToStairResult.distance < minDistance
CloserThan(pathToStairResult, minDistance) ==
  /\ pathToStairResult # NullResult
  /\ pathToStairResult.distance < minDistance

\* a TakeStair that forgets to assign pathToStair
TakeStairDropsPath(acc, stair, pathToStairResult) ==
  [minDistance |-> pathToStairResult.distance,
   nearestStair |-> stair.node_id,
   pathToStair |-> acc.pathToStair,
   stairDistance |-> pathToStairResult.distance]

\* one iteration's assignments: the stair becomes the nearest one
TakeStair(acc, stair, pathToStairResult) ==
  [minDistance |-> pathToStairResult.distance,
   nearestStair |-> stair.node_id,
   pathToStair |-> pathToStairResult.path,
   stairDistance |-> pathToStairResult.distance]

RECURSIVE ReachingStairLoop(_, _, _, _, _, _)
\* first loop: for (const stair of stairsOnCurrentFloor), reaching stairs only
ReachingStairLoop(ns, adj, stairs, startNode, endNode, acc) ==
  IF stairs = <<>> THEN acc
  ELSE
    LET stair == Head(stairs)
        canReachTargetFloor ==
          canStairReachFloor(ns, adj, stair.node_id, endNode.floor)
        pathToStairResult ==
          getSameFloorPath(ns, adj, startNode.node_id, stair.node_id)
        acc2 == IF canReachTargetFloor /\ CloserThan(pathToStairResult,
                                                      acc.minDistance)
                THEN TakeStair(acc, stair, pathToStairResult)
                ELSE acc
    IN ReachingStairLoop(ns, adj, Tail(stairs), startNode, endNode, acc2)

RECURSIVE AnyStairLoop(_, _, _, _, _)
\* second loop: any stair of the floor, reachability not asked
AnyStairLoop(ns, adj, stairs, startNode, acc) ==
  IF stairs = <<>> THEN acc
  ELSE
    LET stair == Head(stairs)
        pathToStairResult ==
          getSameFloorPath(ns, adj, startNode.node_id, stair.node_id)
        acc2 == IF CloserThan(pathToStairResult, acc.minDistance)
                THEN TakeStair(acc, stair, pathToStairResult)
                ELSE acc
    IN AnyStairLoop(ns, adj, Tail(stairs), startNode, acc2)

\* the three messages; the label interpolated is that of the node named
NoStairsMessage(floor) == [kind |-> "NoStairsFound", floor |-> floor]
CannotFindMessage(floor) == [kind |-> "CannotFindPath", floor |-> floor]
OtherFloorsMessage(stair) == [kind |-> "UseToAccessOtherFloors", label |-> stair]
GoToFloorMessage(stair, floor) ==
  [kind |-> "UseToGoToFloor", label |-> stair, floor |-> floor]

\* a cross-floor PathResult
CrossFloorResult(path, distance, targetFloor, message) ==
  [path |-> path, distance |-> distance, floorChange |-> TRUE,
   targetFloor |-> targetFloor, message |-> message]

\* Graph.getCrossFloorPath(startNode, endNode)
getCrossFloorPath(ns, adj, startNode, endNode) ==
  LET stairsOnCurrentFloor == getStairsOnFloor(ns, startNode.floor)
      acc0 == [minDistance |-> Infinity, nearestStair |-> Null,
               pathToStair |-> <<>>, stairDistance |-> 0]
  IN IF Len(stairsOnCurrentFloor) = 0
     THEN CrossFloorResult(<<>>, 0, endNode.floor,
                           NoStairsMessage(startNode.floor))
     ELSE
       LET acc1 == ReachingStairLoop(ns, adj, stairsOnCurrentFloor,
                                     startNode, endNode, acc0)
       IN IF acc1.nearestStair = Null
          THEN
            LET acc2 == AnyStairLoop(ns, adj, stairsOnCurrentFloor,
                                     startNode, acc1)
            IN IF acc2.nearestStair = Null
               THEN CrossFloorResult(<<>>, 0, endNode.floor,
                                     CannotFindMessage(startNode.floor))
               ELSE CrossFloorResult(acc2.pathToStair, acc2.stairDistance,
                                     endNode.floor,
                                     OtherFloorsMessage(acc2.nearestStair))
          ELSE CrossFloorResult(acc1.pathToStair, acc1.stairDistance,
                                endNode.floor,
                                GoToFloorMessage(acc1.nearestStair,
                                                 endNode.floor))

\* a TypeError thrown out of a call (reading a field of undefined)
Thrown == [isNull |-> FALSE, thrown |-> TRUE]

\* a getShortestPath whose first test is written with && : with one unknown
\* identifier it goes on and reads .floor of undefined
getShortestPathBothUnknown(ns, adj, start, end) ==
  IF ~(\E i \in 1..Len(ns) : ns[i].node_id = start)
     /\ ~(\E i \in 1..Len(ns) : ns[i].node_id = end)
  THEN NullResult
  ELSE IF ~(\E i \in 1..Len(ns) : ns[i].node_id = start)
          \/ ~(\E i \in 1..Len(ns) : ns[i].node_id = end)
  THEN Thrown
  ELSE
    LET startNode == ns[CHOOSE i \in 1..Len(ns) : ns[i].node_id = start]
        endNode == ns[CHOOSE i \in 1..Len(ns) : ns[i].node_id = end]
    IN IF startNode.floor # endNode.floor
       THEN getCrossFloorPath(ns, adj, startNode, endNode)
       ELSE getSameFloorPath(ns, adj, start, end)

\* a getShortestPath that never dispatches to the cross-floor router
getShortestPathNoDispatch(ns, adj, start, end) ==
  getSameFloorPath(ns, adj, start, end)

\* Graph.getShortestPath(start, end)
getShortestPath(ns, adj, start, end) ==
  IF ~(\E i \in 1..Len(ns) : ns[i].node_id = start)
     \/ ~(\E i \in 1..Len(ns) : ns[i].node_id = end)
  THEN NullResult
  ELSE
    LET startNode == ns[CHOOSE i \in 1..Len(ns) : ns[i].node_id = start]
        endNode == ns[CHOOSE i \in 1..Len(ns) : ns[i].node_id = end]
    IN IF startNode.floor # endNode.floor
       THEN getCrossFloorPath(ns, adj, startNode, endNode)
       ELSE getSameFloorPath(ns, adj, start, end)

\* ------------------------------------------------------------ constructor
Init ==
  /\ nodes = <<>>
  /\ adjacencyList = <<>>
  /\ pc = "nodes"
  /\ nEdges = 0
  /\ query = <<>>
  /\ result = NullResult
  /\ input = [accessibleOnly |-> FALSE, edges |-> <<>>]
  /\ locals = <<>>

\* nodes.forEach: one iteration, node ids unique (spec section 3)
AddNode ==
  /\ pc = "nodes"
  /\ Len(nodes) + 1 \in NodeIds
  /\ \E f \in Floors, t \in NodeTypes :
       LET id == Len(nodes) + 1
       IN /\ nodes' = Append(nodes, [node_id |-> id, floor |-> f, type |-> t])
          /\ adjacencyList' = Append(adjacencyList, <<>>)
  /\ UNCHANGED <<input, locals, pc, nEdges, query, result>>

\* edges.forEach: one iteration (an edge list of at most MaxEdges edges)
AddEdgeStep ==
  /\ pc \in {"nodes", "edges"}
  /\ nEdges < MaxEdges
  /\ \E from \in NodeIds, to \in NodeIds, w \in Weights :
       /\ from < to
       /\ adjacencyList' = addEdge(addEdge(adjacencyList, from, to, w), to, from, w)
  /\ pc' = "edges"
  /\ nEdges' = nEdges + 1
  /\ UNCHANGED <<input, locals, nodes, query, result>>

\* the constructor returns (its loop index goes out of scope)
Constructed ==
  /\ pc \in {"nodes", "edges"}
  /\ pc' = "ready"
  /\ nEdges' = 0
  /\ UNCHANGED <<input, locals, nodes, adjacencyList, query, result>>

\* a caller's graph.getShortestPath(start, end); calls are synchronous, one
\* at a time
GetShortestPath ==
  /\ pc = "ready"
  /\ query = <<>>
  /\ \E start \in NodeIds, end \in NodeIds :
       /\ query' = <<"getShortestPath", start, end>>
       /\ result' = getShortestPath(nodes, adjacencyList, start, end)
  /\ UNCHANGED <<input, locals, nodes, adjacencyList, pc, nEdges>>

\* the caller has taken the returned value; the graph is ready for the next call
ResultTaken ==
  /\ pc = "ready"
  /\ query # <<>>
  /\ query' = <<>>
  /\ result' = NullResult
  /\ UNCHANGED <<input, locals, nodes, adjacencyList, pc, nEdges>>

Next ==
  \/ AddNode
  \/ AddEdgeStep
  \/ Constructed
  \/ GetShortestPath
  \/ ResultTaken

Spec == Init /\ [][Next]_vars

\* ------------------------------------------------ the connectivity probe
\* getCrossFloorPath asks canStairReachFloor(stairId, targetFloor)
CanStairReachFloor ==
  /\ pc = "ready"
  /\ query = <<>>
  /\ \E stairId \in NodeIds, targetFloor \in Floors :
       /\ query' = <<"canStairReachFloor", stairId, targetFloor>>
       /\ result' = [value |-> canStairReachFloor(nodes, adjacencyList,
                                                  stairId, targetFloor)]
  /\ UNCHANGED <<input, locals, nodes, adjacencyList, pc, nEdges>>

NextProbe ==
  \/ AddNode
  \/ AddEdgeStep
  \/ Constructed
  \/ CanStairReachFloor
  \/ ResultTaken

SpecProbe == Init /\ [][NextProbe]_vars

\* ------------------------------------------------------- connected floors
\* floors of a building with three storeys
BuildingFloors == 1..3

\* Set.add on a Set kept in insertion order
SetAdd(s, x) ==
  IF \E i \in 1..Len(s) : s[i] = x THEN s ELSE Append(s, x)

\* a vertical-link test that looks upward only
IsStairAbove(neighbor, fromFloor) ==
  neighbor.type = "stair" /\ neighbor.floor > fromFloor

\* neighbor.type === 'stair' && neighbor.floor !== fromFloor
IsStairOfOtherFloor(neighbor, fromFloor) ==
  neighbor.type = "stair" /\ neighbor.floor # fromFloor

RECURSIVE NeighborFloors(_, _, _, _, _)
\* for (const [neighborId] of neighbors.entries()) of getConnectedFloors
NeighborFloors(ns, neighbors, i, fromFloor, connectedFloors) ==
  IF i > Len(neighbors) THEN connectedFloors
  ELSE
    LET neighborId == neighbors[i].to
    IN IF ~(\E k \in 1..Len(ns) : ns[k].node_id = neighborId)
       THEN NeighborFloors(ns, neighbors, i + 1, fromFloor, connectedFloors)
       ELSE
         LET neighbor == ns[CHOOSE k \in 1..Len(ns) : ns[k].node_id = neighborId]
         IN IF IsStairOfOtherFloor(neighbor, fromFloor)
            THEN NeighborFloors(ns, neighbors, i + 1, fromFloor,
                                SetAdd(connectedFloors, neighbor.floor))
            ELSE NeighborFloors(ns, neighbors, i + 1, fromFloor, connectedFloors)

RECURSIVE StairsFloors(_, _, _, _, _)
\* stairs.forEach of getConnectedFloors
StairsFloors(ns, adj, stairs, fromFloor, connectedFloors) ==
  IF stairs = <<>> THEN connectedFloors
  ELSE
    LET stair == Head(stairs)
    IN IF stair.node_id \notin DOMAIN adj
       THEN StairsFloors(ns, adj, Tail(stairs), fromFloor, connectedFloors)
       ELSE StairsFloors(ns, adj, Tail(stairs), fromFloor,
                         NeighborFloors(ns, adj[stair.node_id], 1, fromFloor,
                                        connectedFloors))

RECURSIVE InsertNumber(_, _)
\* x placed after the elements that are not greater (a stable ascending sort)
InsertNumber(sorted, x) ==
  IF sorted = <<>> THEN <<x>>
  ELSE IF Head(sorted) <= x THEN <<Head(sorted)>> \o InsertNumber(Tail(sorted), x)
  ELSE <<x>> \o sorted

RECURSIVE SortNumbers(_, _)
\* Array.prototype.sort((a, b) => a - b)
SortNumbers(done, todo) ==
  IF todo = <<>> THEN done
  ELSE SortNumbers(InsertNumber(done, Head(todo)), Tail(todo))

\* Graph.getConnectedFloors(fromFloor)
getConnectedFloors(ns, adj, fromFloor) ==
  SortNumbers(<<>>, StairsFloors(ns, adj, getStairsOnFloor(ns, fromFloor),
                                 fromFloor, <<>>))

\* nodes.forEach: one iteration, for a node of a three-storey building
AddBuildingNode ==
  /\ pc = "nodes"
  /\ Len(nodes) + 1 \in NodeIds
  /\ \E f \in BuildingFloors, t \in NodeTypes :
       LET id == Len(nodes) + 1
       IN /\ nodes' = Append(nodes, [node_id |-> id, floor |-> f, type |-> t])
          /\ adjacencyList' = Append(adjacencyList, <<>>)
  /\ UNCHANGED <<input, locals, pc, nEdges, query, result>>

\* a caller asks getConnectedFloors(fromFloor)
GetConnectedFloors ==
  /\ pc = "ready"
  /\ query = <<>>
  /\ \E fromFloor \in BuildingFloors :
       /\ query' = <<"getConnectedFloors", fromFloor>>
       /\ result' = [floors |-> getConnectedFloors(nodes, adjacencyList, fromFloor)]
  /\ UNCHANGED <<input, locals, nodes, adjacencyList, pc, nEdges>>

NextFloors ==
  \/ AddBuildingNode
  \/ AddEdgeStep
  \/ Constructed
  \/ GetConnectedFloors
  \/ ResultTaken

SpecFloors == Init /\ [][NextFloors]_vars

\* -------------------------------------------------------- reachable nodes
\* identifiers and distance budgets of the graphs getReachableNodes is asked
\* about
PlaceIds == 1..4
Budgets == 0..MaxBudget

\* a budget test that compares the edge's weight, not the distance so far
\* plus the weight
WithinBudgetOfEdge(currentDistance, weight, maxDistance) ==
  weight <= maxDistance

\* newDistance <= maxDistance, newDistance being currentDistance + weight
WithinBudget(currentDistance, weight, maxDistance) ==
  currentDistance + weight <= maxDistance

RECURSIVE ReachNeighbors(_, _, _, _)
\* for (const [neighbor, weight] of neighbors.entries()) of getReachableNodes
ReachNeighbors(st, neighbors, currentDistance, maxDistance) ==
  IF neighbors = <<>> THEN st
  ELSE
    LET neighbor == Head(neighbors).to
        weight == Head(neighbors).weight
        newDistance == currentDistance + weight
        existingDistance == GetOrInfinity(st.distances, neighbor)
        st2 ==
          IF WithinBudget(currentDistance, weight, maxDistance)
             /\ newDistance < existingDistance
          THEN [st EXCEPT
                  !.distances = Put(st.distances, neighbor, newDistance),
                  !.queue = Append(st.queue, <<neighbor, newDistance>>)]
          ELSE st
    IN ReachNeighbors(st2, Tail(neighbors), currentDistance, maxDistance)

RECURSIVE ReachLoop(_, _, _, _, _)
\* while (queue.length > 0) of getReachableNodes
ReachLoop(ns, adj, st, start, maxDistance) ==
  IF st.queue = <<>> THEN st.reachableNodes
  ELSE
    LET currentNode == Head(st.queue)[1]
        currentDistance == Head(st.queue)[2]
        shifted == [st EXCEPT !.queue = Tail(st.queue)]
    IN IF currentNode \in st.visited
       THEN ReachLoop(ns, adj, shifted, start, maxDistance)
       ELSE
         LET known == \E k \in 1..Len(ns) : ns[k].node_id = currentNode
             pushed ==
               IF known /\ currentNode # start
               THEN Append(st.reachableNodes,
                           ns[CHOOSE k \in 1..Len(ns) :
                                ns[k].node_id = currentNode])
               ELSE st.reachableNodes
             marked == [shifted EXCEPT !.visited = @ \cup {currentNode},
                                       !.reachableNodes = pushed]
         IN IF currentNode \notin DOMAIN adj
            THEN ReachLoop(ns, adj, marked, start, maxDistance)
            ELSE ReachLoop(ns, adj,
                           ReachNeighbors(marked, adj[currentNode],
                                          currentDistance, maxDistance),
                           start, maxDistance)

\* Graph.getReachableNodes(start, maxDistance)
getReachableNodes(ns, adj, start, maxDistance) ==
  IF ~(\E k \in 1..Len(ns) : ns[k].node_id = start) THEN <<>>
  ELSE ReachLoop(ns, adj,
                 [distances |-> Put(<<>>, start, 0),
                  visited |-> {},
                  queue |-> << <<start, 0>> >>,
                  reachableNodes |-> <<>>],
                 start, maxDistance)

\* nodes.forEach: one iteration, for a place of a one-floor map
AddPlace ==
  /\ pc = "nodes"
  /\ Len(nodes) + 1 \in PlaceIds
  /\ LET id == Len(nodes) + 1
     IN /\ nodes' = Append(nodes, [node_id |-> id, floor |-> 1, type |-> "shop"])
        /\ adjacencyList' = Append(adjacencyList, <<>>)
  /\ UNCHANGED <<input, locals, pc, nEdges, query, result>>

\* edges.forEach: one iteration (an edge list of at most MaxLinks edges)
AddLinkStep ==
  /\ pc \in {"nodes", "edges"}
  /\ nEdges < MaxLinks
  /\ \E from \in PlaceIds, to \in PlaceIds, w \in Weights :
       /\ from < to
       /\ adjacencyList' =
            addEdge(addEdge(adjacencyList, from, to, w), to, from, w)
  /\ pc' = "edges"
  /\ nEdges' = nEdges + 1
  /\ UNCHANGED <<input, locals, nodes, query, result>>

\* a caller asks getReachableNodes(start, maxDistance)
GetReachableNodes ==
  /\ pc = "ready"
  /\ query = <<>>
  /\ \E start \in PlaceIds, maxDistance \in Budgets :
       /\ query' = <<"getReachableNodes", start, maxDistance>>
       /\ result' = [reachableNodes |->
                       getReachableNodes(nodes, adjacencyList, start, maxDistance)]
  /\ UNCHANGED <<input, locals, nodes, adjacencyList, pc, nEdges>>

NextReach ==
  \/ AddPlace
  \/ AddLinkStep
  \/ Constructed
  \/ GetReachableNodes
  \/ ResultTaken

SpecReach == Init /\ [][NextReach]_vars

\* ------------------------------------------- graphs with positive weights
PositiveWeights == 1..MaxPositiveWeight

\* edges.forEach: one iteration, for an edge of strictly positive weight
AddPositiveEdgeStep ==
  /\ pc \in {"nodes", "edges"}
  /\ nEdges < MaxEdges
  /\ \E from \in NodeIds, to \in NodeIds, w \in PositiveWeights :
       /\ from < to
       /\ adjacencyList' =
            addEdge(addEdge(adjacencyList, from, to, w), to, from, w)
  /\ pc' = "edges"
  /\ nEdges' = nEdges + 1
  /\ UNCHANGED <<input, locals, nodes, query, result>>

NextPositive ==
  \/ AddNode
  \/ AddPositiveEdgeStep
  \/ Constructed
  \/ GetShortestPath
  \/ ResultTaken

SpecPositive == Init /\ [][NextPositive]_vars

\* ------------------------------------- path and reach queries on one map
NextDangling ==
  \/ AddPlace
  \/ AddLinkStep
  \/ Constructed
  \/ GetShortestPath
  \/ GetReachableNodes
  \/ ResultTaken

SpecDangling == Init /\ [][NextDangling]_vars

\* ---------------------------- the Graph variant with an accessibility filter
\* a filter test that keeps every edge
EdgeKeptAlways(accessibleOnly, edge) == TRUE

\* !accessibleOnly || edge.accessible
EdgeKept(accessibleOnly, edge) == ~accessibleOnly \/ edge.accessible

\* Graph.getShortestPath(start, end) of the variant: one search over the
\* whole node index, the result has path and distance only
getShortestPathFiltered(ns, adj, start, end) ==
  IF ~(\E i \in 1..Len(ns) : ns[i].node_id = start)
     \/ ~(\E i \in 1..Len(ns) : ns[i].node_id = end)
  THEN NullResult
  ELSE
    LET ids == {ns[i].node_id : i \in 1..Len(ns)}
        st0 == [distances |-> [k \in ids |->
                                 IF k = start THEN 0 ELSE Infinity],
                previous |-> [k \in ids |-> Null],
                visited |-> {},
                priorityQueue |-> <<[node |-> start, distance |-> 0]>>]
        st == SearchLoop(adj, st0, end)
        path == ReconstructPath(st.previous, end, <<>>)
    IN IF Len(path) = 1 /\ path[1] # start THEN NullResult
       ELSE [path |-> path, distance |-> GetOrInfinity(st.distances, end)]

\* the caller passes accessibleOnly = true (the default is false)
SetAccessibleOnly ==
  /\ pc = "nodes"
  /\ nodes = <<>>
  /\ ~input.accessibleOnly
  /\ input' = [input EXCEPT !.accessibleOnly = TRUE]
  /\ UNCHANGED <<nodes, adjacencyList, pc, nEdges, query, result, locals>>

\* nodes.forEach of the variant: one iteration
AddFilterNode ==
  /\ pc = "nodes"
  /\ Len(nodes) + 1 \in NodeIds
  /\ LET id == Len(nodes) + 1
     IN /\ nodes' = Append(nodes, [node_id |-> id, floor |-> 1, type |-> "shop"])
        /\ adjacencyList' = Append(adjacencyList, <<>>)
  /\ UNCHANGED <<pc, nEdges, query, result, input, locals>>

\* edges.forEach of the variant: one iteration
AddFilterEdgeStep ==
  /\ pc \in {"nodes", "edges"}
  /\ nEdges < MaxFewEdges
  /\ \E from \in NodeIds, to \in NodeIds, w \in Weights, a \in BOOLEAN :
       LET edge == [from |-> from, to |-> to, distance |-> w, accessible |-> a]
       IN /\ from < to
          /\ adjacencyList' =
               IF EdgeKept(input.accessibleOnly, edge)
               THEN addEdge(addEdge(adjacencyList, edge.from, edge.to,
                                    edge.distance),
                            edge.to, edge.from, edge.distance)
               ELSE adjacencyList
          /\ input' = [input EXCEPT !.edges = Append(@, edge)]
  /\ pc' = "edges"
  /\ nEdges' = nEdges + 1
  /\ UNCHANGED <<nodes, query, result, locals>>

\* a caller asks getShortestPath(start, end) of the variant
GetShortestPathFiltered ==
  /\ pc = "ready"
  /\ query = <<>>
  /\ \E start \in NodeIds, end \in NodeIds :
       /\ query' = <<"getShortestPath (filtered)", start, end>>
       /\ result' = getShortestPathFiltered(nodes, adjacencyList, start, end)
  /\ UNCHANGED <<nodes, adjacencyList, pc, nEdges, input, locals>>

NextFilter ==
  \/ SetAccessibleOnly
  \/ AddFilterNode
  \/ AddFilterEdgeStep
  \/ Constructed
  \/ GetShortestPathFiltered
  \/ ResultTaken

SpecFilter == Init /\ [][NextFilter]_vars

\* ------------------------------------------------------------ searchNodes
\* A string is a sequence of characters; the characters of the model
Chars == {"a", "A", "b"}
\* the strings of at most MaxTextLen characters
Texts == UNION {[1..n -> Chars] : n \in 0..MaxTextLen}
\* the identifiers and types of the nodes searchNodes is asked about
SearchIds == <<(<<"A">>), (<<"b">>)>>
SearchTypes == {<<"a">>, <<"A", "b">>}

\* a toLowerCase that leaves every character as it is
SameCase(c) == c

\* String.prototype.toLowerCase, one character
LowerChar(c) == IF c = "A" THEN "a" ELSE c

\* String.prototype.toLowerCase
toLowerCase(s) == [i \in 1..Len(s) |-> LowerChar(s[i])]

\* String.prototype.includes
includes(s, sub) ==
  \E i \in 0..(Len(s) - Len(sub)) : SubSeq(s, i + 1, i + Len(sub)) = sub

\* Graph.searchNodes(query)
searchNodes(ns, q) ==
  LET lowerQuery == toLowerCase(q)
      Matches(node) ==
        \/ includes(toLowerCase(node.label), lowerQuery)
        \/ includes(toLowerCase(node.type), lowerQuery)
        \/ includes(toLowerCase(node.node_id), lowerQuery)
  IN SelectSeq(ns, Matches)

\* nodes.forEach: one iteration, for a node with a label
AddLabelledNode ==
  /\ pc = "nodes"
  /\ Len(nodes) < Len(SearchIds)
  /\ \E label \in Texts, type \in SearchTypes :
       /\ nodes' = Append(nodes, [node_id |-> SearchIds[Len(nodes) + 1],
                                  floor |-> 1, type |-> type, label |-> label])
       /\ adjacencyList' = Append(adjacencyList, <<>>)
  /\ UNCHANGED <<pc, nEdges, query, result, input, locals>>

\* a caller asks searchNodes(query)
SearchNodes ==
  /\ pc = "ready"
  /\ query = <<>>
  /\ \E q \in Texts :
       /\ query' = <<"searchNodes", q>>
       /\ result' = [found |-> searchNodes(nodes, q)]
  /\ UNCHANGED <<nodes, adjacencyList, pc, nEdges, input, locals>>

NextSearch ==
  \/ AddLabelledNode
  \/ Constructed
  \/ SearchNodes
  \/ ResultTaken

SpecSearch == Init /\ [][NextSearch]_vars

\* -------------------------------------------------------- the accessors
\* edges.forEach: one iteration (an edge list of at most MaxFewEdges edges)
AddFewEdgesStep ==
  /\ pc \in {"nodes", "edges"}
  /\ nEdges < MaxFewEdges
  /\ \E from \in NodeIds, to \in NodeIds, w \in Weights :
       /\ from < to
       /\ adjacencyList' =
            addEdge(addEdge(adjacencyList, from, to, w), to, from, w)
  /\ pc' = "edges"
  /\ nEdges' = nEdges + 1
  /\ UNCHANGED <<nodes, query, result, input, locals>>

\* undefined, where a node is expected
Undefined == [isUndefined |-> TRUE]

\* Graph.getAllNodes(): Array.from(this.nodes.values())
getAllNodes(ns) == ns

\* Graph.getNode(nodeId)
getNode(ns, nodeId) ==
  IF \E i \in 1..Len(ns) : ns[i].node_id = nodeId
  THEN ns[CHOOSE i \in 1..Len(ns) : ns[i].node_id = nodeId]
  ELSE Undefined

\* Graph.getNodesByType(type)
getNodesByType(ns, type) ==
  LET OfType(node) == node.type = type
  IN SelectSeq(getAllNodes(ns), OfType)

\* Graph.getNodesByFloor(floor)
getNodesByFloor(ns, floor) ==
  LET OnFloor(node) == node.floor = floor
  IN SelectSeq(getAllNodes(ns), OnFloor)

RECURSIVE FloorSet(_, _)
\* this.nodes.forEach(node => floors.add(node.floor))
FloorSet(ns, floors) ==
  IF ns = <<>> THEN floors
  ELSE FloorSet(Tail(ns), SetAdd(floors, Head(ns).floor))

\* Graph.getFloors()
getFloors(ns) == SortNumbers(<<>>, FloorSet(ns, <<>>))

\* this.adjacencyList.get(fromNode)?.get(toNode) || 0
EdgeDistanceOrZero(adj, fromNode, toNode) ==
  IF fromNode \in DOMAIN adj /\ SeqIndex(adj[fromNode], toNode, 1) # 0
  THEN adj[fromNode][SeqIndex(adj[fromNode], toNode, 1)].weight
  ELSE 0

RECURSIVE DistanceFromStart(_, _, _)
\* for (let i = 0; i < index; i++) distanceFromStart += edgeDistance
\* (index counts from 1 here: the first index - 1 edges of the path)
DistanceFromStart(adj, path, index) ==
  IF index <= 1 THEN 0
  ELSE DistanceFromStart(adj, path, index - 1)
         + EdgeDistanceOrZero(adj, path[index - 1], path[index])

\* what getDetailedPath makes of the result of getShortestPath
DetailedResult(ns, adj, res) ==
  IF res = NullResult THEN NullResult
  ELSE    [path |-> res.path,
           distance |-> res.distance,
           steps |-> [index \in 1..Len(res.path) |->
                        LET node == getNode(ns, res.path[index])
                        IN [nodeId |-> res.path[index],
                            label |-> node.node_id,
                            type |-> node.type,
                            floor |-> node.floor,
                            distanceFromStart |->
                              DistanceFromStart(adj, res.path, index)]],
           floorChange |-> res.floorChange,
           message |-> res.message]

\* Graph.getDetailedPath(start, end)
getDetailedPath(ns, adj, start, end) ==
  DetailedResult(ns, adj, getShortestPath(ns, adj, start, end))

\* Graph.hasPath(start, end)
hasPath(ns, adj, start, end) ==
  LET res == getShortestPath(ns, adj, start, end)
  IN res # NullResult /\ Len(res.path) > 0

\* the text searchNodes reads of a node (its label is stood for by its
\* identifier)
NodeText(node) ==
  LET idText == IF node.node_id = 1 THEN <<"A">>
                ELSE IF node.node_id = 2 THEN <<"b">> ELSE <<"b", "A">>
  IN [node_id |-> idText,
      type |-> IF node.type = "stair" THEN <<"a">> ELSE <<"A", "b">>,
      label |-> idText]
\* the queries searchNodes is asked on such nodes
ShortTexts == {q \in Texts : Len(q) <= 1}
\* Graph.searchNodes(query) on nodes read through NodeText
searchNodesByText(ns, q) ==
  LET Hit(node) == searchNodes(<<NodeText(node)>>, q) # <<>>
  IN SelectSeq(ns, Hit)

\* a getFloors that sorts the node index itself by floor
GetFloorsSortsIndex ==
  /\ pc = "ready"
  /\ query = <<>>
  /\ query' = <<"getFloors">>
  /\ result' = [value |-> getFloors(nodes)]
  /\ nodes' = [i \in 1..Len(nodes) |->
                 nodes[CHOOSE k \in 1..Len(nodes) :
                         Cardinality({j \in 1..Len(nodes) :
                            \/ nodes[j].floor < nodes[k].floor
                            \/ (nodes[j].floor = nodes[k].floor /\ j < k)})
                           = i - 1]]
  /\ UNCHANGED <<adjacencyList, pc, nEdges, input, locals>>

\* one action for each accessor a caller may use on a constructed graph
GetFloors ==
  /\ pc = "ready"
  /\ query = <<>>
  /\ query' = <<"getFloors">>
  /\ result' = [value |-> getFloors(nodes)]
  /\ UNCHANGED <<nodes, adjacencyList, pc, nEdges, input, locals>>

GetAllNodes ==
  /\ pc = "ready"
  /\ query = <<>>
  /\ query' = <<"getAllNodes">>
  /\ result' = [value |-> getAllNodes(nodes)]
  /\ UNCHANGED <<nodes, adjacencyList, pc, nEdges, input, locals>>

GetNodeById ==
  /\ pc = "ready"
  /\ query = <<>>
  /\ \E nodeId \in NodeIds :
       /\ query' = <<"getNode", nodeId>>
       /\ result' = [value |-> getNode(nodes, nodeId)]
  /\ UNCHANGED <<nodes, adjacencyList, pc, nEdges, input, locals>>

GetNodesByType ==
  /\ pc = "ready"
  /\ query = <<>>
  /\ \E type \in NodeTypes :
       /\ query' = <<"getNodesByType", type>>
       /\ result' = [value |-> getNodesByType(nodes, type)]
  /\ UNCHANGED <<nodes, adjacencyList, pc, nEdges, input, locals>>

GetNodesByFloor ==
  /\ pc = "ready"
  /\ query = <<>>
  /\ \E floor \in Floors :
       /\ query' = <<"getNodesByFloor", floor>>
       /\ result' = [value |-> getNodesByFloor(nodes, floor)]
  /\ UNCHANGED <<nodes, adjacencyList, pc, nEdges, input, locals>>

SearchNodesByText ==
  /\ pc = "ready"
  /\ query = <<>>
  /\ \E q \in ShortTexts :
       /\ query' = <<"searchNodes", q>>
       /\ result' = [value |-> searchNodesByText(nodes, q)]
  /\ UNCHANGED <<nodes, adjacencyList, pc, nEdges, input, locals>>

GetDetailedPath ==
  /\ pc = "ready"
  /\ query = <<>>
  /\ \E start \in NodeIds, end \in NodeIds :
       /\ query' = <<"getDetailedPath", start, end>>
       /\ result' = [value |-> getDetailedPath(nodes, adjacencyList, start, end)]
  /\ UNCHANGED <<nodes, adjacencyList, pc, nEdges, input, locals>>

HasPath ==
  /\ pc = "ready"
  /\ query = <<>>
  /\ \E start \in NodeIds, end \in NodeIds :
       /\ query' = <<"hasPath", start, end>>
       /\ result' = [value |-> hasPath(nodes, adjacencyList, start, end)]
  /\ UNCHANGED <<nodes, adjacencyList, pc, nEdges, input, locals>>

\* getConnectedFloors asked on a two-floor building
GetConnectedFloorsOf ==
  /\ pc = "ready"
  /\ query = <<>>
  /\ \E fromFloor \in Floors :
       /\ query' = <<"getConnectedFloors", fromFloor>>
       /\ result' = [floors |-> getConnectedFloors(nodes, adjacencyList, fromFloor)]
  /\ UNCHANGED <<nodes, adjacencyList, pc, nEdges, input, locals>>

\* getReachableNodes asked about the nodes of the building
GetReachableNodesOf ==
  /\ pc = "ready"
  /\ query = <<>>
  /\ \E start \in NodeIds, maxDistance \in Budgets :
       /\ query' = <<"getReachableNodes", start, maxDistance>>
       /\ result' = [reachableNodes |->
                       getReachableNodes(nodes, adjacencyList, start, maxDistance)]
  /\ UNCHANGED <<nodes, adjacencyList, pc, nEdges, input, locals>>

NextReadOnly ==
  \/ AddNode
  \/ AddFewEdgesStep
  \/ Constructed
  \/ GetShortestPath
  \/ GetReachableNodesOf
  \/ GetConnectedFloorsOf
  \/ GetFloors
  \/ SearchNodesByText
  \/ GetNodeById
  \/ GetAllNodes
  \/ GetNodesByType
  \/ GetNodesByFloor
  \/ GetDetailedPath
  \/ HasPath
  \/ ResultTaken

SpecReadOnly == Init /\ [][NextReadOnly]_vars

\* --------------------------------------- the same-floor search, step by step
\* the local variables of getSameFloorPath before its while loop
SearchLocals(ns, start, end) ==
  LET startNode == ns[CHOOSE i \in 1..Len(ns) : ns[i].node_id = start]
      mates == SameFloorIds(ns, startNode.floor)
  IN [start |-> start, end |-> end,
      distances |-> [k \in mates |-> IF k = start THEN 0 ELSE Infinity],
      previous |-> [k \in mates |-> Null],
      visited |-> {},
      priorityQueue |-> <<[node |-> start, distance |-> 0]>>,
      path |-> <<>>,
      currentNode |-> end]

\* the four maps of the search, as RelaxNeighbors reads and writes them
SearchState(l) ==
  [distances |-> l.distances, previous |-> l.previous,
   visited |-> l.visited, priorityQueue |-> l.priorityQueue]
WithSearchState(l, st) ==
  [l EXCEPT !.distances = st.distances, !.previous = st.previous,
            !.visited = st.visited, !.priorityQueue = st.priorityQueue]

\* a caller's getSameFloorPath(start, end) begins (both nodes are known: the
\* callers pass identifiers of nodes they hold)
BeginSameFloorPath ==
  /\ pc = "ready"
  /\ query = <<>>
  /\ \E start \in NodeIds, end \in NodeIds :
       /\ HasNode(start) /\ HasNode(end)
       /\ query' = <<"getSameFloorPath", start, end>>
       /\ locals' = SearchLocals(nodes, start, end)
  /\ pc' = "search"
  /\ UNCHANGED <<nodes, adjacencyList, nEdges, result, input>>

\* one test of while (priorityQueue.length > 0) and, if it holds, one
\* iteration of the loop body
SearchStep ==
  /\ pc = "search"
  /\ \/ /\ locals.priorityQueue = <<>>
        /\ locals' = locals
        /\ pc' = "reconstruct"
     \/ /\ locals.priorityQueue # <<>>
        /\ LET sorted == SortQueue(locals.priorityQueue, <<>>)
               currentNode == Head(sorted).node
               currentDistance == Head(sorted).distance
               popped == [locals EXCEPT !.priorityQueue = Tail(sorted)]
               marked == [popped EXCEPT !.visited = @ \cup {currentNode}]
           IN IF currentNode \in locals.visited
              THEN locals' = popped /\ pc' = "search"
              ELSE IF currentNode = locals.end
              THEN locals' = marked /\ pc' = "reconstruct"
              ELSE IF currentNode \notin DOMAIN adjacencyList
              THEN locals' = marked /\ pc' = "search"
              ELSE /\ locals' =
                        WithSearchState(marked,
                          RelaxNeighbors(SearchState(marked),
                                         adjacencyList[currentNode],
                                         currentNode, currentDistance))
                   /\ pc' = "search"
  /\ UNCHANGED <<nodes, adjacencyList, nEdges, query, result, input>>

\* one test of while (currentNode !== null) and, if it holds, one iteration;
\* otherwise the return statements
ReconstructStep ==
  /\ pc = "reconstruct"
  /\ \/ /\ locals.currentNode # Null
        /\ locals' = [locals EXCEPT
                        !.path = <<locals.currentNode>> \o @,
                        !.currentNode = GetOrNull(locals.previous,
                                                  locals.currentNode)]
        /\ pc' = "reconstruct"
        /\ result' = result
     \/ /\ locals.currentNode = Null
        /\ result' =
             IF Len(locals.path) = 1 /\ locals.path[1] # locals.start
             THEN NullResult
             ELSE SameFloorResult(locals.path,
                                  GetOrInfinity(locals.distances, locals.end))
        /\ locals' = <<>>
        /\ pc' = "ready"
  /\ UNCHANGED <<nodes, adjacencyList, nEdges, query, input>>

NextSearchSteps ==
  \/ AddPlace
  \/ AddLinkStep
  \/ Constructed
  \/ BeginSameFloorPath
  \/ SearchStep
  \/ ReconstructStep
  \/ ResultTaken

SpecSearchSteps == Init /\ [][NextSearchSteps]_vars

\* ------------------------------- the probe and the reach loop, step by step
\* the two weights of the graphs the loops are run on
ZeroOrHeavy == {0, MaxWeight}

\* nodes.forEach: one iteration, for a stair (the probe follows stairs only,
\* so a graph of stairs is the one where it prunes nothing)
AddStairNode ==
  /\ pc = "nodes"
  /\ Len(nodes) + 1 \in NodeIds
  /\ \E f \in Floors :
       LET id == Len(nodes) + 1
       IN /\ nodes' = Append(nodes, [node_id |-> id, floor |-> f,
                                     type |-> "stair"])
          /\ adjacencyList' = Append(adjacencyList, <<>>)
  /\ UNCHANGED <<pc, nEdges, query, result, input, locals>>

\* edges.forEach: one iteration; the edge may join a node to itself
AddAnyEdgeStep ==
  /\ pc \in {"nodes", "edges"}
  /\ nEdges < MaxFewEdges
  /\ \E from \in NodeIds, to \in NodeIds, w \in ZeroOrHeavy :
       /\ from <= to
       /\ adjacencyList' =
            addEdge(addEdge(adjacencyList, from, to, w), to, from, w)
  /\ pc' = "edges"
  /\ nEdges' = nEdges + 1
  /\ UNCHANGED <<nodes, query, result, input, locals>>

\* a visited test that never finds the identifier
NeverVisited(visited, id) == FALSE

\* visited.has(currentStairId)
AlreadyVisited(visited, id) == id \in visited

\* getCrossFloorPath's canStairReachFloor(stair.node_id, endNode.floor) begins
BeginProbe ==
  /\ pc = "ready"
  /\ query = <<>>
  /\ \E stairId \in NodeIds, targetFloor \in Floors :
       /\ query' = <<"canStairReachFloor", stairId, targetFloor>>
       /\ locals' = [targetFloor |-> targetFloor, visited |-> {},
                     queue |-> <<stairId>>]
  /\ pc' = "probe"
  /\ UNCHANGED <<nodes, adjacencyList, nEdges, result, input>>

\* one test of while (queue.length > 0) of canStairReachFloor and, if it
\* holds, one iteration; otherwise return false
ProbeStep ==
  /\ pc = "probe"
  /\ \/ /\ locals.queue = <<>>
        /\ result' = [value |-> FALSE]
        /\ locals' = <<>>
        /\ pc' = "ready"
     \/ /\ locals.queue # <<>>
        /\ LET currentStairId == Head(locals.queue)
               shifted == [locals EXCEPT !.queue = Tail(locals.queue)]
               marked == [shifted EXCEPT !.visited = @ \cup {currentStairId}]
           IN IF AlreadyVisited(locals.visited, currentStairId)
              THEN locals' = shifted /\ pc' = "probe" /\ result' = result
              ELSE IF ~HasNode(currentStairId)
              THEN locals' = marked /\ pc' = "probe" /\ result' = result
              ELSE IF nodes[CHOOSE i \in 1..Len(nodes) :
                              nodes[i].node_id = currentStairId].floor
                        = locals.targetFloor
              THEN /\ result' = [value |-> TRUE]
                   /\ locals' = <<>>
                   /\ pc' = "ready"
              ELSE IF currentStairId \notin DOMAIN adjacencyList
              THEN locals' = marked /\ pc' = "probe" /\ result' = result
              ELSE /\ locals' =
                        [marked EXCEPT
                           !.queue = @ \o StairNeighbors(nodes,
                                            adjacencyList[currentStairId])]
                   /\ pc' = "probe"
                   /\ result' = result
  /\ UNCHANGED <<nodes, adjacencyList, nEdges, query, input>>

\* a caller's getReachableNodes(start, maxDistance) begins; an unknown start
\* returns the empty list at once
BeginReach ==
  /\ pc = "ready"
  /\ query = <<>>
  /\ \E start \in NodeIds, maxDistance \in Budgets :
       /\ query' = <<"getReachableNodes", start, maxDistance>>
       /\ IF ~HasNode(start)
          THEN /\ result' = [reachableNodes |-> <<>>]
               /\ locals' = locals
               /\ pc' = "ready"
          ELSE /\ result' = result
               /\ locals' = [start |-> start, maxDistance |-> maxDistance,
                             distances |-> Put(<<>>, start, 0),
                             visited |-> {},
                             queue |-> << <<start, 0>> >>,
                             reachableNodes |-> <<>>]
               /\ pc' = "reach"
  /\ UNCHANGED <<nodes, adjacencyList, nEdges, input>>

\* one test of while (queue.length > 0) of getReachableNodes and, if it
\* holds, one iteration; otherwise return reachableNodes
ReachStep ==
  /\ pc = "reach"
  /\ \/ /\ locals.queue = <<>>
        /\ result' = [reachableNodes |-> locals.reachableNodes]
        /\ locals' = <<>>
        /\ pc' = "ready"
     \/ /\ locals.queue # <<>>
        /\ LET currentNode == Head(locals.queue)[1]
               currentDistance == Head(locals.queue)[2]
               shifted == [locals EXCEPT !.queue = Tail(locals.queue)]
               pushed ==
                 IF HasNode(currentNode) /\ currentNode # locals.start
                 THEN Append(locals.reachableNodes,
                             nodes[CHOOSE k \in 1..Len(nodes) :
                                     nodes[k].node_id = currentNode])
                 ELSE locals.reachableNodes
               marked == [shifted EXCEPT !.visited = @ \cup {currentNode},
                                         !.reachableNodes = pushed]
               st == [distances |-> marked.distances,
                      visited |-> marked.visited,
                      queue |-> marked.queue,
                      reachableNodes |-> marked.reachableNodes]
               relaxed == ReachNeighbors(st, adjacencyList[currentNode],
                                         currentDistance, locals.maxDistance)
           IN /\ IF currentNode \in locals.visited
                 THEN locals' = shifted
                 ELSE IF currentNode \notin DOMAIN adjacencyList
                 THEN locals' = marked
                 ELSE locals' = [marked EXCEPT
                                   !.distances = relaxed.distances,
                                   !.queue = relaxed.queue]
              /\ pc' = "reach"
              /\ result' = result
  /\ UNCHANGED <<nodes, adjacencyList, nEdges, query, input>>

NextSteps ==
  \/ AddStairNode
  \/ AddAnyEdgeStep
  \/ Constructed
  \/ BeginSameFloorPath
  \/ SearchStep
  \/ ReconstructStep
  \/ BeginProbe
  \/ ProbeStep
  \/ BeginReach
  \/ ReachStep
  \/ ResultTaken

\* calls are synchronous: a call that has begun runs its loop until it returns
SpecSteps ==
  /\ Init /\ [][NextSteps]_vars
  /\ WF_vars(SearchStep)
  /\ WF_vars(ReconstructStep)
  /\ WF_vars(ProbeStep)
  /\ WF_vars(ReachStep)

\* ==================================================================
\* Reference notions the claims are stated with (not code of the program)
\* ==================================================================
KnownIds == {nodes[i].node_id : i \in 1..Len(nodes)}
FloorOf(id) == GetNode(id).floor
TypeOf(id) == GetNode(id).type
IndexOf(id) == CHOOSE i \in 1..Len(nodes) : nodes[i].node_id = id
IdsOnFloor(f) == {id \in KnownIds : FloorOf(id) = f}
StairsOn(f) == {id \in IdsOnFloor(f) : TypeOf(id) = "stair"}

\* the adjacency entries from u to v
HasEdge(u, v) == \E i \in 1..Len(adjacencyList[u]) : adjacencyList[u][i].to = v
EdgeWeight(u, v) ==
  adjacencyList[u][CHOOSE i \in 1..Len(adjacencyList[u]) :
                     adjacencyList[u][i].to = v].weight
AllWeightsPositive ==
  \A u \in KnownIds : \A i \in 1..Len(adjacencyList[u]) :
     adjacencyList[u][i].weight > 0

SetMin(S) == CHOOSE x \in S : \A y \in S : x <= y
Last(seq) == seq[Len(seq)]
\* addition of distances, Infinity absorbing
Plus(a, b) == IF a = Infinity \/ b = Infinity THEN Infinity ELSE a + b

RECURSIVE RefDistances(_, _, _)
\* Bellman-Ford: least weight of a walk of at most k edges from a, inside allowed
RefDistances(allowed, a, k) ==
  IF k = 0 THEN [v \in allowed |-> IF v = a THEN 0 ELSE Infinity]
  ELSE LET d == RefDistances(allowed, a, k - 1)
       IN [v \in allowed |->
             SetMin({d[v]} \cup
                    {Plus(d[u], EdgeWeight(u, v)) :
                       u \in {x \in allowed : HasEdge(x, v)}})]

\* least total weight of a path from a to b through nodes of allowed only
RefDist(allowed, a, b) == RefDistances(allowed, a, Cardinality(allowed))[b]
\* ... through nodes of a's floor only
FloorDist(a, b) == RefDist(IdsOnFloor(FloorOf(a)), a, b)
\* ... through any known nodes
GraphDist(a, b) == RefDist(KnownIds, a, b)

RECURSIVE StairClosure(_)
\* the nodes reached from R by hops into stair-type nodes
StairClosure(R) ==
  LET R2 == R \cup {v \in KnownIds :
                      TypeOf(v) = "stair" /\ \E u \in R : HasEdge(u, v)}
  IN IF R2 = R THEN R ELSE StairClosure(R2)

\* the connector network of stair s includes a node of floor f
NetReaches(s, f) == \E v \in StairClosure({s}) : FloorOf(v) = f

\* the query the state shows the answer of
Answered == pc = "ready" /\ query # <<>> /\ query[1] = "getShortestPath"
qStart == query[2]
qEnd == query[3]
SameFloorQuery ==
  /\ Answered
  /\ qStart \in KnownIds /\ qEnd \in KnownIds
  /\ FloorOf(qStart) = FloorOf(qEnd)
CrossFloorQuery ==
  /\ Answered
  /\ qStart \in KnownIds /\ qEnd \in KnownIds
  /\ FloorOf(qStart) # FloorOf(qEnd)
\* the stairs of the origin floor whose connector network reaches the
\* destination floor
ReachingStairs == {s \in StairsOn(FloorOf(qStart)) : NetReaches(s, FloorOf(qEnd))}

\* ==================================================================
\* Claims
\* ==================================================================

\* C1: for every node A of the graph, getShortestPath(A, A) returns path
\* <<A>> with distance 0.
C1_SelfPathZero ==
  (Answered /\ qStart = qEnd /\ qStart \in KnownIds)
    => /\ result # NullResult
       /\ result.path = <<qStart>>
       /\ result.distance = 0

\* C2: for distinct nodes A, B of one floor and strictly positive weights, the
\* distance getShortestPath(A, B) returns is the least total weight of an
\* A-to-B path through nodes of that floor only (no result when there is none).
C2_FloorRestrictedDistance ==
  (SameFloorQuery /\ qStart # qEnd /\ AllWeightsPositive)
    => IF FloorDist(qStart, qEnd) = Infinity
       THEN result = NullResult
       ELSE result # NullResult /\ result.distance = FloorDist(qStart, qEnd)

\* C3: for A and B on floor f, every identifier in the path getShortestPath(A, B)
\* returns is a node of floor f.
C3_PathStaysOnFloor ==
  (SameFloorQuery /\ result # NullResult)
    => \A i \in 1..Len(result.path) :
         /\ result.path[i] \in KnownIds
         /\ FloorOf(result.path[i]) = FloorOf(qStart)

\* C4: a cross-floor request whose origin floor has a stair with a connector
\* network reaching the destination floor returns a non-empty path ending at
\* such a stair, floorChange = true and targetFloor the destination's floor,
\* for every origin of that floor, the stair itself included.
C4_PathToReachingStair ==
  (CrossFloorQuery /\ ReachingStairs # {})
    => /\ result # NullResult
       /\ result.path # <<>>
       /\ Last(result.path) \in ReachingStairs
       /\ result.floorChange = TRUE
       /\ result.targetFloor = FloorOf(qEnd)
\* C5: a cross-floor request whose origin floor holds no stair-type node
\* returns an empty path, distance 0, floorChange = true, targetFloor the
\* destination's floor and the message that names the origin floor.
C5_NoStairOnOriginFloor ==
  (CrossFloorQuery /\ StairsOn(FloorOf(qStart)) = {})
    => result = [path |-> <<>>, distance |-> 0, floorChange |-> TRUE,
                 targetFloor |-> FloorOf(qEnd),
                 message |-> [kind |-> "NoStairsFound",
                              floor |-> FloorOf(qStart)]]

\* C5 witness: such a request has been answered, on a graph that has a stair
\* on another floor than the origin's.
C5_Witness ==
  /\ CrossFloorQuery
  /\ StairsOn(FloorOf(qStart)) = {}
  /\ StairsOn(FloorOf(qEnd)) # {}
  /\ result.path = <<>>

\* the stairs of the origin floor nearest to the origin by same-floor distance,
\* among candidates
NearestOf(candidates) ==
  {s \in candidates :
     \A t \in candidates : FloorDist(qStart, s) <= FloorDist(qStart, t)}

\* C6: when the targeted guidance is returned, the stair ending the path is,
\* among the origin floor's stairs that reach the destination floor, one of
\* least same-floor distance from the origin, and the first of those in node
\* insertion order.
C6_NearestReachingStairFirstWins ==
  (CrossFloorQuery /\ ReachingStairs # {} /\ result.path # <<>>
     /\ result.message.kind = "UseToGoToFloor")
    => /\ Last(result.path) \in NearestOf(ReachingStairs)
       /\ \A s \in NearestOf(ReachingStairs) :
            IndexOf(Last(result.path)) <= IndexOf(s)

\* the stairs of the origin floor joined to the origin by a path on that floor
StairsWithFloorPath ==
  {s \in StairsOn(FloorOf(qStart)) : FloorDist(qStart, s) # Infinity}

\* C7: the origin floor has stairs and none reaches the destination floor: if
\* some stair has a same-floor path from the origin, the result is the path to
\* the nearest stair with the generic message; if none has, the path is empty
\* with the cannot-find message; both with floorChange = true and targetFloor
\* the destination's floor.
C7_FallbackToNearestStair ==
  (CrossFloorQuery /\ StairsOn(FloorOf(qStart)) # {} /\ ReachingStairs = {})
    => /\ result # NullResult
       /\ result.floorChange = TRUE
       /\ result.targetFloor = FloorOf(qEnd)
       /\ IF StairsWithFloorPath # {}
          THEN /\ result.path # <<>>
               /\ result.path[1] = qStart
               /\ Last(result.path) \in NearestOf(StairsWithFloorPath)
               /\ result.message.kind = "UseToAccessOtherFloors"
          ELSE /\ result.path = <<>>
               /\ result.message.kind = "CannotFindPath"

\* the three cross-floor failure conditions
NoStairOnOriginFloor == StairsOn(FloorOf(qStart)) = {}
NoStairReachesTarget == StairsOn(FloorOf(qStart)) # {} /\ ReachingStairs = {}
NoStairReachable ==
  /\ StairsOn(FloorOf(qStart)) # {}
  /\ \A s \in StairsOn(FloorOf(qStart)) : GraphDist(qStart, s) = Infinity

\* C8 as stated: in each of the three failure conditions the result is a
\* PathResult with an empty path, never null.
C8_EmptyPathInEveryFailure ==
  (CrossFloorQuery
     /\ (NoStairOnOriginFloor \/ NoStairReachesTarget \/ NoStairReachable))
    => result # NullResult /\ result.path = <<>>

\* C8 amended: in each of the three failure conditions the result is a
\* PathResult, never null, with floorChange = true; its path is empty when the
\* origin floor has no stair and when no stair of the origin floor is joined to
\* the origin; when stairs exist but none reaches the target floor the path is
\* empty with the cannot-find message, or it is a path from the origin to a
\* stair of the origin floor with the generic message.
C8_FailureResults ==
  (CrossFloorQuery
     /\ (NoStairOnOriginFloor \/ NoStairReachesTarget \/ NoStairReachable))
    => /\ result # NullResult
       /\ result.floorChange = TRUE
       /\ NoStairOnOriginFloor => result.path = <<>>
       /\ NoStairReachable => result.path = <<>>
       /\ NoStairReachesTarget =>
            \/ /\ result.path = <<>>
               /\ result.message.kind = "CannotFindPath"
            \/ /\ result.path # <<>>
               /\ result.path[1] = qStart
               /\ Last(result.path) \in StairsOn(FloorOf(qStart))
               /\ result.message.kind = "UseToAccessOtherFloors"

\* C8 witness: stairs exist, none reaches the target floor, and the answer
\* carries a path to a stair.
C8_Witness ==
  /\ CrossFloorQuery
  /\ NoStairReachesTarget
  /\ result.path # <<>>
  /\ Len(result.path) >= 2

\* C9: for A and B on one floor, getShortestPath(A, B) and getShortestPath(B, A)
\* are both null or have equal distances.
C9_SymmetricDistance ==
  SameFloorQuery
    => LET back == getShortestPath(nodes, adjacencyList, qEnd, qStart)
       IN IF result = NullResult THEN back = NullResult
          ELSE back # NullResult /\ back.distance = result.distance

\* C10: for A, B, C on one floor whose three requests all return results,
\* distance(A, C) <= distance(A, B) + distance(B, C).
C10_Triangle ==
  (SameFloorQuery /\ result # NullResult)
    => \A b \in IdsOnFloor(FloorOf(qStart)) :
         LET ab == getShortestPath(nodes, adjacencyList, qStart, b)
             bc == getShortestPath(nodes, adjacencyList, b, qEnd)
         IN (ab # NullResult /\ bc # NullResult)
              => result.distance <= Plus(ab.distance, bc.distance)
\* the adjacency index joins a to b by some chain of entries
Connected(a, b) == GraphDist(a, b) # Infinity

\* C11: A and B of one floor are joined by an edge of weight w (0 included)
\* that is the only edge at either of them: getShortestPath(A, B) returns
\* path <<A, B>> with distance w.
C11_SingleEdgeDistance ==
  (SameFloorQuery /\ qStart # qEnd
     /\ Len(adjacencyList[qStart]) = 1 /\ adjacencyList[qStart][1].to = qEnd
     /\ Len(adjacencyList[qEnd]) = 1 /\ adjacencyList[qEnd][1].to = qStart)
    => /\ result # NullResult
       /\ result.path = <<qStart, qEnd>>
       /\ result.distance = adjacencyList[qStart][1].weight

\* a call of getShortestPath with an identifier the node index does not hold
UnknownEndpointQuery ==
  Answered /\ (qStart \notin KnownIds \/ qEnd \notin KnownIds)

\* C12: getShortestPath(start, end) returns null whenever start or end is not
\* in the node index, and no step of a constructed graph changes the node
\* index or the adjacency index.
C12_UnknownIsNull ==
  /\ [](UnknownEndpointQuery => result = NullResult)
  /\ [][pc = "ready" => (nodes' = nodes /\ adjacencyList' = adjacencyList)]_vars

\* C12 witness: a call with a known start and an unknown end has returned null
\* on a graph that has edges.
C12_Witness ==
  /\ UnknownEndpointQuery
  /\ qStart \in KnownIds
  /\ Len(adjacencyList[qStart]) > 0
  /\ result = NullResult

\* C13: for distinct A, B of one floor, getShortestPath(A, B) is null exactly
\* when no chain of adjacency entries joins A to B.
C13_NullIffDisconnected ==
  (SameFloorQuery /\ qStart # qEnd)
    => (result = NullResult <=> ~Connected(qStart, qEnd))

\* C13 witnesses: a null answer for a disconnected pair whose ends both have
\* edges, and a non-null answer for a pair joined only through a third node.
C13_WitnessNull ==
  /\ SameFloorQuery /\ qStart # qEnd
  /\ ~Connected(qStart, qEnd)
  /\ Len(adjacencyList[qStart]) > 0 /\ Len(adjacencyList[qEnd]) > 0
  /\ result = NullResult
C13_Witness ==
  /\ SameFloorQuery /\ qStart # qEnd
  /\ Connected(qStart, qEnd) /\ ~HasEdge(qStart, qEnd)
  /\ result # NullResult

\* C14: with known endpoints, a same-floor answer that is not null has
\* floorChange = false and neither targetFloor nor message; a cross-floor
\* answer is never null and has floorChange = true, targetFloor the
\* destination's floor and a message.
C14_DispatchOnFloor ==
  /\ (SameFloorQuery /\ result # NullResult)
       => /\ result.floorChange = FALSE
          /\ result.targetFloor = Null
          /\ result.message = NoMessage
  /\ CrossFloorQuery
       => /\ result # NullResult
          /\ result.floorChange = TRUE
          /\ result.targetFloor = FloorOf(qEnd)
          /\ result.message # NoMessage
          /\ result.message.kind \in {"NoStairsFound", "CannotFindPath",
                                      "UseToAccessOtherFloors", "UseToGoToFloor"}

\* C14 witness: a cross-floor answer with a path, on a graph where the two
\* endpoints are joined by an edge.
C14_Witness ==
  /\ CrossFloorQuery
  /\ HasEdge(qStart, qEnd)
  /\ result.floorChange = TRUE
  /\ result.path # <<>>

\* C15: the path of a same-floor answer that is not null starts at A, ends at
\* B, joins consecutive identifiers by adjacency entries and repeats none.
C15_PathWellFormed ==
  (SameFloorQuery /\ result # NullResult)
    => LET path == result.path
       IN /\ Len(path) >= 1
          /\ path[1] = qStart
          /\ path[Len(path)] = qEnd
          /\ \A i \in 1..(Len(path) - 1) :
               path[i] \in KnownIds /\ HasEdge(path[i], path[i + 1])
          /\ \A i, j \in 1..Len(path) : path[i] = path[j] => i = j

\* C15 witness: an answer whose path has three nodes.
C15_Witness ==
  /\ SameFloorQuery
  /\ result # NullResult
  /\ Len(result.path) = 3

RECURSIVE PathWeight(_)
\* the sum of the adjacency weights along a path
PathWeight(path) ==
  IF Len(path) <= 1 THEN 0
  ELSE EdgeWeight(path[1], path[2]) + PathWeight(Tail(path))

\* C16: in every answer that is not null (same-floor or cross-floor, single
\* node and empty paths included) distance is the sum of the adjacency
\* weights along the path.
C16_DistanceIsPathWeight ==
  (Answered /\ result # NullResult)
    => result.distance = PathWeight(result.path)

\* C20: after construction every neighbor key of every adjacency map is the
\* identifier of a known node: an edge with an unknown endpoint has left no
\* entry in either direction.
C20_NoDanglingEntry ==
  pc = "ready"
    => \A u \in DOMAIN adjacencyList :
         \A i \in 1..Len(adjacencyList[u]) :
           adjacencyList[u][i].to \in KnownIds


\* the probe call the state shows the answer of
ProbeAnswered ==
  pc = "ready" /\ query # <<>> /\ query[1] = "canStairReachFloor"

\* C17: canStairReachFloor(s, f) is true exactly when a node of floor f is
\* reached from s by zero or more hops, each into a stair-type node (s itself
\* counts, at zero hops, when it is on floor f).
C17_ProbeIsStairReachability ==
  ProbeAnswered
    => (result.value <=> (query[2] \in KnownIds /\ NetReaches(query[2], query[3])))

\* C17 witness: the probe answered true for a stair that is not on floor f and
\* has no edge to a node of floor f: the floor is reached in two hops.
C17_Witness ==
  /\ ProbeAnswered
  /\ query[2] \in KnownIds
  /\ FloorOf(query[2]) # query[3]
  /\ \A v \in IdsOnFloor(query[3]) : ~HasEdge(query[2], v)
  /\ result.value = TRUE

\* C17 witness of the negative side: the probe answered false although an
\* edge joins s to a node of floor f (that node is not a stair).
C17_WitnessBlocked ==
  /\ ProbeAnswered
  /\ query[2] \in KnownIds
  /\ \E v \in IdsOnFloor(query[3]) : HasEdge(query[2], v)
  /\ result.value = FALSE


\* the getConnectedFloors call the state shows the answer of
FloorsAnswered ==
  pc = "ready" /\ query # <<>> /\ query[1] = "getConnectedFloors"

\* an edge joins a stair of floor f to a stair of floor g
StairLink(f, g) ==
  \E s \in StairsOn(f), t \in StairsOn(g) : HasEdge(s, t)

\* the elements of a sequence
Range(s) == {s[i] : i \in 1..Len(s)}

\* C18: for different floors f and g with a stair of f joined to a stair of g
\* by an edge, g is in getConnectedFloors(f) and f is in
\* getConnectedFloors(g); the list returned is strictly ascending (sorted,
\* no duplicates).
C18_ConnectedFloorsSymmetric ==
  FloorsAnswered
    => LET f == query[2]
       IN /\ \A g \in BuildingFloors \ {f} :
               StairLink(f, g)
                 => /\ g \in Range(result.floors)
                    /\ f \in Range(getConnectedFloors(nodes, adjacencyList, g))
          /\ \A i \in 1..(Len(result.floors) - 1) :
               result.floors[i] < result.floors[i + 1]

\* C18 witness: the stairs of the middle floor are joined to the upper floor
\* first and to the lower floor second, and the list returned has both.
C18_Witness ==
  /\ FloorsAnswered
  /\ query[2] = 2
  /\ \E s \in StairsOn(2) :
       /\ Len(adjacencyList[s]) = 2
       /\ adjacencyList[s][1].to \in StairsOn(3)
       /\ adjacencyList[s][2].to \in StairsOn(1)
  /\ result.floors = <<1, 3>>


\* the getReachableNodes call the state shows the answer of
ReachAnswered ==
  pc = "ready" /\ query # <<>> /\ query[1] = "getReachableNodes"

\* C19: getReachableNodes(start, maxDistance) lists every node other than
\* start whose least distance from start in the adjacency graph is at most
\* maxDistance.
C19_ReachableComplete ==
  (ReachAnswered /\ query[2] \in KnownIds)
    => \A v \in KnownIds \ {query[2]} :
         GraphDist(query[2], v) <= query[3]
           => \E i \in 1..Len(result.reachableNodes) :
                result.reachableNodes[i].node_id = v


\* C28: with strictly positive weights and distinct A, B of one floor, the
\* distance getShortestPath(A, B) returns is the least total weight of an
\* A-to-B path through the whole adjacency index (nodes of every floor), so
\* it is never greater than the floor-restricted least distance.
C28_WholeGraphDistance ==
  (SameFloorQuery /\ qStart # qEnd /\ AllWeightsPositive /\ result # NullResult)
    => /\ result.distance = GraphDist(qStart, qEnd)
       /\ result.distance <= FloorDist(qStart, qEnd)

\* C28 witness: the floor has an A-to-B path, and the answer is a strictly
\* shorter route that leaves the floor.
C28_Witness ==
  /\ SameFloorQuery /\ qStart # qEnd /\ AllWeightsPositive
  /\ result # NullResult
  /\ FloorDist(qStart, qEnd) # Infinity
  /\ result.distance < FloorDist(qStart, qEnd)
  /\ \E i \in 1..Len(result.path) : FloorOf(result.path[i]) # FloorOf(qStart)


\* C26: a cross-floor answer with a path starts at the origin, ends at a stair
\* of the origin floor and holds nodes of the origin floor only.
C26_CrossPathOnOriginFloor ==
  (CrossFloorQuery /\ result.path # <<>>)
    => /\ result.path[1] = qStart
       /\ Last(result.path) \in StairsOn(FloorOf(qStart))
       /\ \A i \in 1..Len(result.path) :
            /\ result.path[i] \in KnownIds
            /\ FloorOf(result.path[i]) = FloorOf(qStart)

\* C29: a cross-floor answer whose message is 'use <stair> to go to floor F'
\* names the stair at the end of its path and the destination's floor, and
\* that stair reaches floor F; a path ending at a stair that does not reach F
\* comes with the generic 'access other floors' message only.
C29_TargetedMessageOnlyForReachingStair ==
  (CrossFloorQuery /\ result.path # <<>>)
    => LET stair == Last(result.path)
           F == FloorOf(qEnd)
       IN /\ result.message.kind = "UseToGoToFloor"
               => /\ result.message.label = stair
                  /\ result.message.floor = F
                  /\ canStairReachFloor(nodes, adjacencyList, stair, F)
                  /\ NetReaches(stair, F)
          /\ ~NetReaches(stair, F)
               => result.message.kind = "UseToAccessOtherFloors"

\* C29 witness: the answer names a stair that is not the origin, with the
\* targeted message, and that stair reaches the destination's floor.
C29_Witness ==
  /\ CrossFloorQuery /\ Len(result.path) >= 2
  /\ result.message.kind = "UseToGoToFloor"
  /\ result.message.label = Last(result.path)
  /\ NetReaches(Last(result.path), FloorOf(qEnd))

\* C29 witness of the other side: the path ends at a stair that does not
\* reach the destination's floor, with the generic message.
C29_WitnessFallback ==
  /\ CrossFloorQuery /\ Len(result.path) >= 2
  /\ result.message.kind = "UseToAccessOtherFloors"
  /\ ~NetReaches(Last(result.path), FloorOf(qEnd))

RECURSIVE BudgetClosure(_, _)
\* the pairs <<v, d>>, d at most maxDistance, such that a chain of adjacency
\* entries of total weight d leads from a node of R (at its own d) to v
BudgetClosure(R, maxDistance) ==
  LET R2 == R \cup {p \in KnownIds \X (0..maxDistance) :
                      \E q \in R : /\ q[1] \in KnownIds
                                    /\ HasEdge(q[1], p[1])
                                    /\ q[2] + EdgeWeight(q[1], p[1]) = p[2]}
  IN IF R2 = R THEN R ELSE BudgetClosure(R2, maxDistance)

\* the nodes some path of total weight at most maxDistance joins to start
PathWithin(start, maxDistance) ==
  {p[1] : p \in BudgetClosure({<<start, 0>>}, maxDistance)}

\* C30: getReachableNodes(start, maxDistance) returns the empty list for an
\* unknown start, never lists start, lists no node twice, and lists only
\* nodes that some path of total weight at most maxDistance joins to start.
C30_ReachableSound ==
  ReachAnswered
    => LET start == query[2]
           maxDistance == query[3]
           list == result.reachableNodes
           within == PathWithin(start, maxDistance)
       IN /\ start \notin KnownIds => list = <<>>
          /\ \A i \in 1..Len(list) :
               /\ list[i].node_id # start
               /\ list[i].node_id \in KnownIds
               /\ list[i].node_id \in within
          /\ \A i, j \in 1..Len(list) :
               list[i].node_id = list[j].node_id => i = j

\* C30 witness: a node two edges away is listed, and a node whose least
\* distance exceeds the budget is left out.
C30_Witness ==
  /\ ReachAnswered /\ query[2] \in KnownIds
  /\ \E i \in 1..Len(result.reachableNodes) :
       ~HasEdge(query[2], result.reachableNodes[i].node_id)
  /\ \E v \in KnownIds \ {query[2]} :
       /\ GraphDist(query[2], v) # Infinity
       /\ GraphDist(query[2], v) > query[3]
       /\ \A i \in 1..Len(result.reachableNodes) :
            result.reachableNodes[i].node_id # v


\* an adjacency entry names a node the node index does not hold
IsDangling(e) == e.to \notin KnownIds
\* the adjacency index the constructor builds from the same edge list without
\* its dangling edges
WithoutDangling ==
  LET Kept(e) == ~IsDangling(e)
  IN [u \in DOMAIN adjacencyList |-> SelectSeq(adjacencyList[u], Kept)]
HasDangling ==
  \E u \in DOMAIN adjacencyList :
     \E i \in 1..Len(adjacencyList[u]) : IsDangling(adjacencyList[u][i])

\* C21: no path of getShortestPath and no list of getReachableNodes holds an
\* identifier the node index lacks, and a query between known nodes answers
\* as it does on the graph built without the dangling edges.
C21_DanglingEdgesInert ==
  /\ (Answered /\ result # NullResult)
       => /\ \A i \in 1..Len(result.path) : result.path[i] \in KnownIds
          /\ result = getShortestPath(nodes, WithoutDangling, qStart, qEnd)
  /\ (Answered /\ result = NullResult
         /\ qStart \in KnownIds /\ qEnd \in KnownIds)
       => getShortestPath(nodes, WithoutDangling, qStart, qEnd) = NullResult
  /\ ReachAnswered
       => /\ \A i \in 1..Len(result.reachableNodes) :
               result.reachableNodes[i].node_id \in KnownIds
          /\ result.reachableNodes =
               getReachableNodes(nodes, WithoutDangling, query[2], query[3])

\* C21 witness: the origin's first adjacency entry is a dangling one, and the
\* answer is a path of three known nodes.
C21_Witness ==
  /\ Answered /\ qStart \in KnownIds
  /\ Len(adjacencyList[qStart]) >= 2
  /\ IsDangling(adjacencyList[qStart][1])
  /\ result # NullResult
  /\ Len(result.path) = 3

\* C21 witness for getReachableNodes: the start has a dangling entry within
\* the budget and the list holds two known nodes.
C21_WitnessReach ==
  /\ ReachAnswered /\ query[2] \in KnownIds
  /\ \E i \in 1..Len(adjacencyList[query[2]]) :
       /\ IsDangling(adjacencyList[query[2]][i])
       /\ adjacencyList[query[2]][i].weight <= query[3]
  /\ Len(result.reachableNodes) = 2


\* the getShortestPath call of the filtered variant the state shows the answer of
FilterAnswered ==
  pc = "ready" /\ query # <<>> /\ query[1] = "getShortestPath (filtered)"

\* the input edges that join u and v, by position in the edge list
Joining(u, v) ==
  {i \in 1..Len(input.edges) :
     {input.edges[i].from, input.edges[i].to} = {u, v}}
\* ... those the constructor does not skip
KeptJoining(u, v) ==
  {i \in Joining(u, v) : input.accessibleOnly => input.edges[i].accessible}
SetMax(S) == CHOOSE x \in S : \A y \in S : y <= x

\* C22: with accessibleOnly, an edge marked non-accessible leaves no entry in
\* either direction, so consecutive nodes of a returned path are joined by an
\* input edge marked accessible; without it, every edge is entered in both
\* directions with its weight (the last edge given for a pair sets it).
C22_AccessibilityFilter ==
  /\ pc = "ready"
       => \A u \in KnownIds, v \in NodeIds :
            /\ HasEdge(u, v) <=> KeptJoining(u, v) # {}
            /\ (u # v /\ v \in KnownIds /\ KeptJoining(u, v) # {})
                 => /\ HasEdge(v, u)
                    /\ EdgeWeight(u, v) =
                         input.edges[SetMax(KeptJoining(u, v))].distance
                    /\ EdgeWeight(v, u) = EdgeWeight(u, v)
  /\ (FilterAnswered /\ result # NullResult /\ input.accessibleOnly)
       => \A i \in 1..(Len(result.path) - 1) :
            \E k \in Joining(result.path[i], result.path[i + 1]) :
               input.edges[k].accessible

\* C22 witness: with accessibleOnly, a pair is joined by an accessible edge
\* and by a non-accessible edge of smaller weight, and the path returned has
\* the weight of the accessible one.
C22_Witness ==
  /\ FilterAnswered /\ result # NullResult /\ input.accessibleOnly
  /\ result.path = <<qStart, qEnd>>
  /\ qStart # qEnd
  /\ \E k \in Joining(qStart, qEnd) :
       /\ ~input.edges[k].accessible
       /\ input.edges[k].distance < result.distance
       /\ result.distance # Infinity

\* C22 witness of a skipped edge: with accessibleOnly, the only edge that
\* joins the two nodes is non-accessible and no path is returned.
C22_WitnessSkipped ==
  /\ FilterAnswered /\ input.accessibleOnly
  /\ qStart \in KnownIds /\ qEnd \in KnownIds
  /\ Joining(qStart, qEnd) # {}
  /\ result = NullResult

\* C22 witness without the filter: the path returned uses a non-accessible edge.
C22_WitnessUnfiltered ==
  /\ FilterAnswered /\ result # NullResult /\ ~input.accessibleOnly
  /\ Len(result.path) = 2
  /\ \A k \in Joining(qStart, qEnd) : ~input.edges[k].accessible


\* the searchNodes call the state shows the answer of
SearchAnswered ==
  pc = "ready" /\ query # <<>> /\ query[1] = "searchNodes"

\* the pairs of characters that differ in case only
CasePairs == {{"a", "A"}}
SameLetter(x, y) == x = y \/ {x, y} \in CasePairs
\* q occurs in s at some offset, letters compared without regard to case
ContainsIgnoringCase(s, q) ==
  \E off \in 0..(Len(s) - Len(q)) :
     \A k \in 1..Len(q) : SameLetter(s[off + k], q[k])
RECURSIVE Filtered(_, _)
\* the elements of s that are in the set keep, in the order of s
Filtered(s, keep) ==
  IF s = <<>> THEN <<>>
  ELSE IF Head(s) \in keep THEN <<Head(s)>> \o Filtered(Tail(s), keep)
  ELSE Filtered(Tail(s), keep)

\* C24: searchNodes(q) returns exactly the nodes whose label, type or node_id
\* contains q, case ignored, in the order of the node index.
C24_SearchNodesExact ==
  SearchAnswered
    => LET q == query[2]
           hits == {i \in 1..Len(nodes) :
                      \/ ContainsIgnoringCase(nodes[i].label, q)
                      \/ ContainsIgnoringCase(nodes[i].type, q)
                      \/ ContainsIgnoringCase(nodes[i].node_id, q)}
           order == Filtered([i \in 1..Len(nodes) |-> i], hits)
       IN result.found = [k \in 1..Len(order) |-> nodes[order[k]]]

\* C24 witness: a query in upper case finds the second node by its label in
\* lower case and leaves the first node out.
C24_Witness ==
  /\ SearchAnswered
  /\ Len(nodes) = 2
  /\ query[2] = <<"b", "A">>
  /\ nodes[2].label = <<"b", "a">>
  /\ result.found = <<nodes[2]>>


\* what the call recorded in query returns on the graph as it is
AnswerOf(q) ==
  CASE q[1] = "getShortestPath" ->
         getShortestPath(nodes, adjacencyList, q[2], q[3])
    [] q[1] = "getReachableNodes" ->
         [reachableNodes |-> getReachableNodes(nodes, adjacencyList, q[2], q[3])]
    [] q[1] = "getConnectedFloors" ->
         [floors |-> getConnectedFloors(nodes, adjacencyList, q[2])]
    [] q[1] = "getFloors" -> [value |-> getFloors(nodes)]
    [] q[1] = "searchNodes" -> [value |-> searchNodesByText(nodes, q[2])]
    [] q[1] = "getNode" -> [value |-> getNode(nodes, q[2])]
    [] q[1] = "getAllNodes" -> [value |-> getAllNodes(nodes)]
    [] q[1] = "getNodesByType" -> [value |-> getNodesByType(nodes, q[2])]
    [] q[1] = "getNodesByFloor" -> [value |-> getNodesByFloor(nodes, q[2])]
    [] q[1] = "getDetailedPath" ->
         [value |-> getDetailedPath(nodes, adjacencyList, q[2], q[3])]
    [] q[1] = "hasPath" -> [value |-> hasPath(nodes, adjacencyList, q[2], q[3])]

\* C23: once the graph is constructed no call of getShortestPath,
\* getReachableNodes, getConnectedFloors, getFloors, searchNodes, getNode,
\* getAllNodes, getNodesByType, getNodesByFloor, getDetailedPath or hasPath
\* changes the node index or the adjacency index, and the answer of a call
\* is the one the constructed graph gives, whatever calls came before.
C23_ReadOnlyAfterConstruction ==
  /\ [][pc = "ready" => (nodes' = nodes /\ adjacencyList' = adjacencyList)]_vars
  /\ []((pc = "ready" /\ query # <<>>) => result = AnswerOf(query))

\* C23 witness: getDetailedPath has answered with the three steps of a path.
C23_Witness ==
  /\ pc = "ready" /\ query # <<>> /\ query[1] = "getDetailedPath"
  /\ result.value # NullResult
  /\ Len(result.value.steps) = 3
  /\ result.value.floorChange = FALSE


\* the same-floor search is running or has just ended
Searching == pc \in {"search", "reconstruct"}

\* the stepwise search returns what getSameFloorPath returns
SearchStepsAgree ==
  (pc = "ready" /\ query # <<>> /\ query[1] = "getSameFloorPath")
    => result = getSameFloorPath(nodes, adjacencyList, query[2], query[3])

\* C27: in the same-floor search a node is expanded at most once, an entry
\* extracted for a visited node is discarded, the distance recorded for a
\* node when it is marked visited is its least distance from the start, and
\* neither that distance nor its predecessor changes afterwards.
C27_VisitedAreSettled ==
  /\ [](Searching
          => \A n \in locals.visited \cap KnownIds :
               /\ n \in DOMAIN locals.distances
               /\ locals.distances[n] = GraphDist(locals.start, n))
  /\ [][(pc = "search" /\ pc' \in {"search", "reconstruct"})
          => /\ locals.visited \subseteq locals'.visited
             /\ \A n \in locals.visited :
                  /\ n \in DOMAIN locals.distances
                       => locals'.distances[n] = locals.distances[n]
                  /\ n \in DOMAIN locals.previous
                       => locals'.previous[n] = locals.previous[n]
             /\ (locals.priorityQueue # <<>>
                   /\ Head(SortQueue(locals.priorityQueue, <<>>)).node
                        \in locals.visited)
                  => /\ locals'.visited = locals.visited
                     /\ locals'.distances = locals.distances
                     /\ locals'.previous = locals.previous
                     /\ Len(locals'.priorityQueue)
                          = Len(locals.priorityQueue) - 1]_vars


\* a call is inside one of its loops
Running == pc \in {"search", "reconstruct", "probe", "reach"}

\* the adjacency holds a self-loop, a zero weight and a dangling entry
HasSelfLoop ==
  \E a \in DOMAIN adjacencyList :
    \E i \in 1..Len(adjacencyList[a]) : adjacencyList[a][i].to = a
HasZeroWeight ==
  \E a \in DOMAIN adjacencyList :
    \E i \in 1..Len(adjacencyList[a]) : adjacencyList[a][i].weight = 0

\* the stepwise loops return what the operators of the whole calls return
StepsAgree ==
  (pc = "ready" /\ query # <<>>)
    => /\ query[1] = "getSameFloorPath"
           => result = getSameFloorPath(nodes, adjacencyList,
                                        query[2], query[3])
       /\ query[1] = "canStairReachFloor"
           => result = [value |-> canStairReachFloor(nodes, adjacencyList,
                                                     query[2], query[3])]
       /\ query[1] = "getReachableNodes"
           => result = [reachableNodes |->
                          getReachableNodes(nodes, adjacencyList,
                                            query[2], query[3])]

\* C25: every query terminates: a call of the same-floor search with its
\* reconstruction, of canStairReachFloor or of getReachableNodes that has
\* begun reaches its return, on graphs with cycles, self-loops, zero
\* weights, duplicate edges and dangling edges.
C25_EveryQueryTerminates == Running ~> (pc = "ready" /\ query # <<>>)

\* a search has returned a two-edge path on a graph with a zero weight
C25_Witness ==
  /\ pc = "ready"
  /\ query # <<>>
  /\ query[1] = "getSameFloorPath"
  /\ result # NullResult
  /\ Len(result.path) = 3
  /\ HasZeroWeight

\* a probe has returned false on a graph whose stair has a self-loop
C25_WitnessProbe ==
  /\ pc = "ready"
  /\ query # <<>>
  /\ query[1] = "canStairReachFloor"
  /\ result = [value |-> FALSE]
  /\ HasNode(query[2])
  /\ \E i \in 1..Len(adjacencyList[query[2]]) :
       adjacencyList[query[2]][i].to = query[2]
  /\ \E s \in KnownIds \ {query[2]} :
       \E i \in 1..Len(adjacencyList[query[2]]) :
         /\ adjacencyList[query[2]][i].to = s
         /\ nodes[s].type = "stair"

\* a reach query has returned two nodes over zero-weight edges, one of them
\* through a self-loop's node
C25_WitnessReach ==
  /\ pc = "ready"
  /\ query # <<>>
  /\ query[1] = "getReachableNodes"
  /\ Len(result.reachableNodes) = 2
  /\ HasZeroWeight


====
